---------------------------- MODULE Spec2Model ----------------------------
(***************************************************************************)
(* BigUpload, Python backend: the FastAPI upload service                   *)
(* (bigupload_fastapi/service.py, router.py, config.py).                   *)
(*                                                                         *)
(* The service runs its request handlers as coroutines of one event loop.  *)
(* A handler runs without interruption from one await to the next; every   *)
(* await of a file operation (aiofiles) is a point where the other         *)
(* handlers run.  Each action below is one such uninterrupted piece.       *)
(*                                                                         *)
(* Bytes are small numbers, a file's content is a sequence of bytes, and   *)
(* one chunk carries one byte.  A file is read in one step.                *)
(***************************************************************************)
EXTENDS Integers, Sequences, FiniteSets, TLC

\* ------------------------------------------------------------------ bounds
\* Requests handled at the same time.
MaxProcs == 2
\* Requests started in one behaviour.
MaxOps == 3
\* Requests started in one behaviour of a client that uploads one file.
MaxScenarioOps == 5
\* The largest chunk count (and chunk index) a client declares.
MaxChunk == 2

\* ----------------------------------------------------------------- domains
Procs == 1..MaxProcs
FileIdOrder == <<"u1", "u2">>
FileIds == {FileIdOrder[k] : k \in 1..Len(FileIdOrder)}
\* File names, as sequences of characters.
FileNames == {<<"f", ".", "a">>, <<"f">>}
\* Chunk indices clients send (the last is outside every declared count but
\* the largest) and the chunk counts they declare.
ChunkIndices == 0..(MaxChunk - 1)
ChunkTotals == 1..MaxChunk
\* The name an upload declares (stored in the metadata, read by no handler).
UploadNames == {<<"f", ".", "a">>}
Bytes == 0..MaxChunk
\* The bytes of chunk i of the file a client means to upload, and the bytes
\* of a chunk that is not the one it should be.
GoodChunk(i) == <<i + 1>>
BadChunk == <<0>>
\* The file of n chunks a client means to upload.
TrueFile(n) == [k \in 1..n |-> k]
\* Metadata objects alive at one time: one per registry key and one per
\* handler that still holds a reference.
ObjIds == 1..(Cardinality(FileIds) + MaxProcs)

\* ------------------------------------------------------------ pure helpers
RECURSIVE Sha256From(_, _)
Sha256From(h, s) ==
    IF s = <<>> THEN h
    ELSE Sha256From(h * (MaxChunk + 2) + (Head(s) + 1), Tail(s))
\* hashlib.sha256(...).hexdigest(): a digest that differs for different
\* contents (no collision among the contents of the model).
Sha256(s) == Sha256From(0, s)

\* The content hashes clients declare: those of the files they mean to upload.
FileHashes == {Sha256(TrueFile(n)) : n \in 1..MaxChunk}

\* An Optional[str]: <<>> is None, <<h>> is the value h.
NoneValue == <<>>
Some(h) == <<h>>

\* dict and directory helpers: a dict is a function whose domain is its keys.
Put(d, k, v) == [x \in (DOMAIN d) \cup {k} |-> IF x = k THEN v ELSE d[x]]
Del(d, k) == [x \in (DOMAIN d) \ {k} |-> d[x]]
EmptyDict == [x \in {} |-> 0]

\* os.path.splitext(filename)[1]: from the last dot, unless only dots precede it.
SplitExt(name) ==
    LET dots == {k \in 1..Len(name) : name[k] = "."}
        last == CHOOSE k \in dots : \A j \in dots : j <= k
    IN  IF dots = {} \/ (\A j \in 1..(last - 1) : name[j] = ".")
        THEN <<>>
        ELSE SubSeq(name, last, Len(name))

get_file_extension(filename) ==
    IF \E k \in 1..Len(filename) : filename[k] = "." THEN SplitExt(filename) ELSE <<>>

\* f"{fileHash}{file_extension}"
TargetFilename(fileHash, fileName) == <<fileHash, get_file_extension(fileName)>>
\* os.path.join(upload_path, filename)
get_upload_file_path(filename) == <<"uploads", filename>>
\* f"{base_url}{file_server_path}/{filename}"
get_file_url(filename) == <<"files", filename>>
\* os.path.join(temp_path, file_id)
get_temp_dir_path(file_id) == <<"temp", file_id>>
\* os.path.join(temp_dir, str(chunk_index))
get_chunk_file_path(file_id, chunk_index) == <<"temp", file_id, chunk_index>>

\* A file id is joined to temp_path as it comes from the client: one with a
\* separator names a directory inside the staging directory of another.
NestedId == "u1/x"
PathOf(file_id) == IF file_id = NestedId THEN <<"u1", "x">> ELSE <<file_id>>
IsPrefix(s, t) == Len(s) <= Len(t) /\ SubSeq(t, 1, Len(s)) = s
AllIds == FileIds \cup {NestedId}
\* The file ids whose staging directory is that of file_id or lies inside it.
TreeOf(file_id) == {g \in AllIds : IsPrefix(PathOf(file_id), PathOf(g))}
\* Path.mkdir(parents=True): the staging directory of file_id and those above it.
ParentsOf(file_id) == {g \in AllIds : IsPrefix(PathOf(g), PathOf(file_id))}

\* A write that takes no account of the handle's position.
WriteAtStart(content, pos, data) ==
    [k \in 1..(IF Len(content) > Len(data) THEN Len(content) ELSE Len(data)) |->
        IF k <= Len(data) THEN data[k] ELSE content[k]]

\* A write of data at offset pos of a file: bytes between the end of the file
\* and pos read as zero.
WriteAt(content, pos, data) ==
    LET n == IF Len(content) > pos + Len(data) THEN Len(content) ELSE pos + Len(data)
    IN  [k \in 1..n |->
            IF k > pos /\ k <= pos + Len(data) THEN data[k - pos]
            ELSE IF k <= Len(content) THEN content[k]
            ELSE 0]

\* All orders of a finite set: list(a_set) promises no order.
Orders(S) ==
    {s \in [1..Cardinality(S) -> S] : \A a, b \in 1..Cardinality(S) : a # b => s[a] # s[b]}

\* FileMetadata.__init__
FileMetadata(file_id, file_name, file_hash, chunk_total) ==
    [file_id |-> file_id, file_name |-> file_name, file_hash |-> file_hash,
     chunk_total |-> chunk_total, uploaded_chunks |-> {}, status |-> "uploading"]

\* An assignment where the add should be.
AddChunkOnly(uploaded_chunks, chunk_index) == {chunk_index}

\* metadata.uploaded_chunks.add(chunk_index)
AddChunk(uploaded_chunks, chunk_index) == uploaded_chunks \cup {chunk_index}

\* ------------------------------------------------------------------- state
VARIABLES
    file_metadata,   \* UploadService._file_metadata: file id -> metadata object
    heap,            \* the FileMetadata objects: object id -> fields
    hash_to_file,    \* UploadService._hash_to_file: file hash -> path
    dirs,            \* the file ids whose staging directory exists
    files,           \* the files on disk: path -> content
    procs,           \* the handlers: the request, the position, the locals, the response
    nstarted,        \* requests started so far
    digest_ok,       \* history: the hashes some merge found equal to its artifact's digest
    merge_ok         \* history: <<hash, url>> of every merge that returned success

vars == <<file_metadata, heap, hash_to_file, dirs, files, procs, nstarted,
          digest_ok, merge_ok>>

NoResponse ==
    [code |-> 0, fileId |-> "", exists |-> FALSE, finish |-> FALSE,
     uploadedChunks |-> <<>>, url |-> <<>>, status |-> "", progress |-> <<>>,
     listed |-> {}]

Idle ==
    [op |-> "none", pc |-> "idle", fileId |-> "", fileName |-> <<>>, fileHash |-> 0,
     chunkIndex |-> 0, chunkTotal |-> 0, content |-> <<>>, chunkHash |-> NoneValue,
     metadata |-> 0, linked |-> FALSE, i |-> 0, pos |-> 0, buf |-> <<>>,
     actual_hash |-> NoneValue, had_chunk |-> FALSE, after_merge |-> FALSE,
     created |-> FALSE, response |-> NoResponse]

\* HTTP status codes of the router.
Ok(body) == [body EXCEPT !.code = 200]
\* A router without its except ValueError clause.
UncaughtValueError == [NoResponse EXCEPT !.code = 500]
\* except ValueError -> 400, except Exception -> 500
ClientError == [NoResponse EXCEPT !.code = 400]
ServerError == [NoResponse EXCEPT !.code = 500]

Done(p, response) == [procs[p] EXCEPT !.pc = "done", !.response = response]

\* The objects something still refers to: the registry's, and those the
\* upload handlers in progress hold in their local `metadata`.
Collect(h, fm, ps) ==
    LET live == {fm[f] : f \in DOMAIN fm}
                \cup {ps[p].metadata : p \in {q \in Procs : ps[q].op = "upload"
                                                  /\ ps[q].pc \notin {"idle", "done"}}}
    IN  [k \in (DOMAIN h) \cap live |-> h[k]]

NewObj == CHOOSE k \in ObjIds : k \notin DOMAIN heap /\ \A j \in 1..(k - 1) : j \in DOMAIN heap

Init ==
    /\ file_metadata = EmptyDict
    /\ heap = EmptyDict
    /\ hash_to_file = EmptyDict
    /\ dirs = {}
    /\ files = EmptyDict
    /\ procs = [p \in Procs |-> Idle]
    /\ nstarted = 0
    /\ digest_ok = {}
    /\ merge_ok = {}

\* The router answers as soon as a handler is done: nothing else happens
\* between a handler's last step and its answer.
Answered == \A q \in Procs : procs[q].pc # "done"

\* A new handler takes the first free slot.
CanStart(p, limit) ==
    /\ Answered
    /\ procs[p].pc = "idle"
    /\ \A q \in 1..(p - 1) : procs[q].pc # "idle"
    /\ nstarted < limit

\* The file ids of a request: those the service knows, and the first of those
\* it does not (an id it does not know is as good as any other such id).
Known(f) ==
    \/ f \in DOMAIN file_metadata
    \/ f \in dirs
    \/ \E q \in Procs : procs[q].fileId = f
ClientIds == {FileIdOrder[k] : k \in {j \in 1..Len(FileIdOrder) :
                                        \A l \in 1..(j - 1) : Known(FileIdOrder[l])}}

\* What a client declares of the file it means to upload: its chunk count and
\* the hash of its content.
Declared(n) == [chunkTotal |-> n, fileHash |-> Sha256(TrueFile(n))]

\* --------------------------------------------------------------- upload_chunk
\* The request an upload handler starts with; the chunk's bytes and the form's
\* chunk_hash enter where the handler first reads them (lines 123 and 127).
UploadRequest(file_id, file_name, chunk_index, chunk_total, file_hash) ==
    [Idle EXCEPT !.op = "upload", !.fileId = file_id, !.fileName = file_name,
                 !.chunkIndex = chunk_index, !.chunkTotal = chunk_total,
                 !.fileHash = file_hash]

\* A creation without the test of line 106.
AlwaysMissing(fm, file_id) == TRUE

\* Line 106: if file_id not in self._file_metadata
SessionMissing(fm, file_id) == file_id \notin DOMAIN fm

\* Lines 105-118: create or get the metadata, make the staging directory; the
\* handler then awaits the open of the chunk file.
\* had_chunk is history: whether the index was recorded when the call came;
\* created is history: whether the call found no session and created one.
UploadStartWith(p, r, limit) ==
    LET created == SessionMissing(file_metadata, r.fileId)
        obj == IF created THEN NewObj ELSE file_metadata[r.fileId]
        had == ~created /\ r.chunkIndex \in heap[obj].uploaded_chunks
    IN  /\ CanStart(p, limit)
        /\ file_metadata' = Put(file_metadata, r.fileId, obj)
        /\ heap' = IF created
                   THEN Put(heap, obj, FileMetadata(r.fileId, r.fileName, r.fileHash, r.chunkTotal))
                   ELSE heap
        /\ dirs' = dirs \cup ParentsOf(r.fileId)
        /\ procs' = [procs EXCEPT ![p] = [r EXCEPT !.pc = "u_open", !.metadata = obj,
                                                   !.had_chunk = had,
                                                   !.created = created]]
        /\ nstarted' = nstarted + 1
        /\ UNCHANGED <<hash_to_file, files, digest_ok, merge_ok>>

UploadStart(p) ==
    \E file_id \in ClientIds, file_name \in UploadNames, chunk_index \in ChunkIndices,
       n \in ChunkTotals :
        UploadStartWith(p, UploadRequest(file_id, file_name, chunk_index,
                                         Declared(n).chunkTotal, Declared(n).fileHash),
                        MaxOps)

\* The declared name, hash and count are read no more once the metadata is
\* there (chunk_total only by the answer's message).
Forget(r) == [r EXCEPT !.fileName = <<>>, !.fileHash = 0, !.chunkTotal = 0]

\* Line 122, aiofiles.open(chunk_file_path, 'wb'): creates or empties the file;
\* FileNotFoundError when the staging directory is gone.
UploadOpen(p) ==
    LET r == procs[p]
        path == get_chunk_file_path(r.fileId, r.chunkIndex)
    IN  /\ Answered /\ r.op = "upload" /\ r.pc = "u_open"
        /\ IF r.fileId \in dirs
           THEN /\ files' = Put(files, path, <<>>)
                /\ procs' = [procs EXCEPT ![p] = [Forget(r) EXCEPT !.pc = "u_write",
                                                                   !.linked = TRUE]]
                /\ heap' = heap
           ELSE /\ files' = files
                /\ procs' = [procs EXCEPT ![p] = Done(p, ServerError)]
                /\ heap' = Collect(heap, file_metadata, procs')
        /\ UNCHANGED <<file_metadata, hash_to_file, dirs, nstarted, digest_ok, merge_ok>>

\* Lines 123-124: content = await chunk.read(); await f.write(content); the
\* file is closed on leaving the block.  A handle whose file was removed
\* writes to a file no path leads to.
UploadWriteWith(p, content) ==
    LET r == procs[p]
        path == get_chunk_file_path(r.fileId, r.chunkIndex)
    IN  /\ Answered /\ r.op = "upload" /\ r.pc = "u_write"
        /\ files' = IF r.linked THEN Put(files, path, WriteAt(files[path], 0, content))
                    ELSE files
        /\ procs' = [procs EXCEPT ![p] = [r EXCEPT !.pc = "u_check", !.linked = FALSE,
                                                   !.content = content]]
        /\ UNCHANGED <<file_metadata, heap, hash_to_file, dirs, nstarted, digest_ok, merge_ok>>

UploadWrite(p) ==
    \E content \in {GoodChunk(procs[p].chunkIndex), BadChunk} : UploadWriteWith(p, content)

\* os.remove(path) or rmtree by one handler: the handles the others hold on
\* the removed files no longer lead to a path.
Unlinked(ps, holds(_)) ==
    [q \in Procs |-> IF holds(ps[q]) THEN [ps[q] EXCEPT !.linked = FALSE] ELSE ps[q]]

HoldsChunk(r, file_id, chunk_index) ==
    r.op = "upload" /\ r.pc = "u_write" /\ r.fileId = file_id /\ r.chunkIndex = chunk_index

\* The chunk hashes a client sends: none, or the hash of the chunk it means to send.
ChunkHashes(chunk_index) == {NoneValue, Some(Sha256(GoodChunk(chunk_index)))}

\* if chunk_hash: ... if actual_hash != chunk_hash
ChunkHashMismatch(chunk_hash, content) ==
    chunk_hash # NoneValue /\ Sha256(content) # chunk_hash[1]

\* Lines 126-142, and the router's answer (router.py 135-143).
UploadFinish(p) ==
    LET r == procs[p]
        path == get_chunk_file_path(r.fileId, r.chunkIndex)
        m == heap[r.metadata]
        added == AddChunk(m.uploaded_chunks, r.chunkIndex)
    IN  /\ Answered /\ r.op = "upload" /\ r.pc = "u_check"
        /\ \E chunk_hash \in ChunkHashes(r.chunkIndex) :
            LET rq == [r EXCEPT !.chunkHash = chunk_hash]
            IN  IF ChunkHashMismatch(chunk_hash, r.content)
                THEN IF path \in DOMAIN files
                     THEN \* os.remove, then raise ValueError
                          /\ files' = Del(files, path)
                          /\ procs' = Unlinked(
                                 [procs EXCEPT ![p] = [rq EXCEPT !.pc = "done",
                                                                 !.response = ClientError]],
                                 LAMBDA x : HoldsChunk(x, r.fileId, r.chunkIndex))
                          /\ heap' = Collect(heap, file_metadata, procs')
                     ELSE \* os.remove raises FileNotFoundError
                          /\ files' = files
                          /\ procs' = [procs EXCEPT ![p] = [rq EXCEPT !.pc = "done",
                                                                      !.response = ServerError]]
                          /\ heap' = Collect(heap, file_metadata, procs')
                ELSE /\ files' = files
                     /\ \E listed \in Orders(added) :
                          procs' = [procs EXCEPT ![p] =
                              [rq EXCEPT !.pc = "done",
                                         !.response = Ok([NoResponse EXCEPT
                                                            !.fileId = r.fileId,
                                                            !.uploadedChunks = listed])]]
                     /\ heap' = Collect([heap EXCEPT ![r.metadata].uploaded_chunks = added],
                                        file_metadata, procs')
        /\ UNCHANGED <<file_metadata, hash_to_file, dirs, nstarted, digest_ok, merge_ok>>

\* --------------------------------------------------------------- merge_chunks
MergeRequest(file_id, file_name, file_hash, chunk_total) ==
    [Idle EXCEPT !.op = "merge", !.fileId = file_id, !.fileName = file_name,
                 !.fileHash = file_hash, !.chunkTotal = chunk_total]

TargetPath(r) == get_upload_file_path(TargetFilename(r.fileHash, r.fileName))

\* Lines 153-161: the checks that the chunks are complete.
ChunksComplete(uploaded_chunks, chunkTotal) ==
    /\ Cardinality(uploaded_chunks) = chunkTotal
    /\ \A i \in 0..(chunkTotal - 1) : i \in uploaded_chunks

\* Lines 148-166: the checks; the handler then awaits the open of the target.
MergeStartWith(p, r, limit) ==
    /\ CanStart(p, limit)
    /\ nstarted' = nstarted + 1
    /\ IF \/ r.fileId \notin DOMAIN file_metadata
          \/ ~ChunksComplete(heap[file_metadata[r.fileId]].uploaded_chunks, r.chunkTotal)
       THEN procs' = [procs EXCEPT ![p] = [r EXCEPT !.pc = "done", !.response = ClientError]]
       ELSE procs' = [procs EXCEPT ![p] = [r EXCEPT !.pc = "m_open"]]
    /\ UNCHANGED <<file_metadata, heap, hash_to_file, dirs, files, digest_ok, merge_ok>>

MergeStart(p) ==
    \E file_id \in ClientIds, file_name \in FileNames, n \in ChunkTotals :
        MergeStartWith(p, MergeRequest(file_id, file_name, Declared(n).fileHash,
                                       Declared(n).chunkTotal), MaxOps)

\* Line 200, at the head of iteration i of the loop of _merge_chunk_files:
\* the handler goes on to read chunk i, or raises ValueError, or is past the
\* loop (the target is closed, line 172 awaits the open for the hash).
LoopHead(r, i) ==
    IF i >= r.chunkTotal
    THEN [r EXCEPT !.pc = "m_hash", !.linked = FALSE, !.i = 0, !.pos = 0, !.buf = <<>>]
    ELSE IF get_chunk_file_path(r.fileId, i) \notin DOMAIN files
    THEN [r EXCEPT !.pc = "done", !.linked = FALSE, !.response = ClientError]
    ELSE [r EXCEPT !.pc = "m_read", !.i = i, !.buf = <<>>]

\* Line 197, aiofiles.open(target_path, 'wb'): creates or empties the target;
\* then the head of the first iteration.
MergeOpen(p) ==
    LET r == procs[p]
    IN  /\ Answered /\ r.op = "merge" /\ r.pc = "m_open"
        /\ files' = Put(files, TargetPath(r), <<>>)
        /\ procs' = [procs EXCEPT ![p] = LoopHead([r EXCEPT !.linked = TRUE], 0)]
        /\ UNCHANGED <<file_metadata, heap, hash_to_file, dirs, nstarted, digest_ok, merge_ok>>

\* Lines 203-204: open chunk i and read it; FileNotFoundError when it is gone.
MergeRead(p) ==
    LET r == procs[p]
        path == get_chunk_file_path(r.fileId, r.i)
    IN  /\ Answered /\ r.op = "merge" /\ r.pc = "m_read"
        /\ procs' = [procs EXCEPT ![p] =
                        IF path \in DOMAIN files
                        THEN [r EXCEPT !.pc = "m_write", !.buf = files[path]]
                        ELSE [r EXCEPT !.pc = "done", !.linked = FALSE,
                                       !.response = ServerError]]
        /\ UNCHANGED <<file_metadata, heap, hash_to_file, dirs, files, nstarted,
                       digest_ok, merge_ok>>

\* Line 205: write the chunk at the handle's position; then the head of the
\* next iteration.
MergeWrite(p) ==
    LET r == procs[p]
    IN  /\ Answered /\ r.op = "merge" /\ r.pc = "m_write"
        /\ files' = IF r.linked
                    THEN Put(files, TargetPath(r), WriteAt(files[TargetPath(r)], r.pos, r.buf))
                    ELSE files
        /\ procs' = [procs EXCEPT ![p] = LoopHead([r EXCEPT !.pos = r.pos + Len(r.buf)],
                                                  r.i + 1)]
        /\ UNCHANGED <<file_metadata, heap, hash_to_file, dirs, nstarted, digest_ok, merge_ok>>

\* Line 172, _calculate_file_hash: open the target and hash what it holds;
\* FileNotFoundError when it is gone.
MergeHash(p) ==
    LET r == procs[p]
    IN  /\ Answered /\ r.op = "merge" /\ r.pc = "m_hash"
        /\ procs' = [procs EXCEPT ![p] =
                        IF TargetPath(r) \in DOMAIN files
                        THEN [r EXCEPT !.pc = "m_check",
                                       !.actual_hash = Some(Sha256(files[TargetPath(r)]))]
                        ELSE [r EXCEPT !.pc = "done", !.response = ServerError]]
        /\ UNCHANGED <<file_metadata, heap, hash_to_file, dirs, files, nstarted,
                       digest_ok, merge_ok>>

HoldsTarget(r, path) ==
    r.op = "merge" /\ r.pc \in {"m_read", "m_write"} /\ TargetPath(r) = path

HoldsChunkOf(r, file_id) ==
    r.op = "upload" /\ r.pc = "u_write" /\ r.fileId \in TreeOf(file_id)

\* Lines 174-175: os.remove(target_path).
DiscardArtifact(fs, path) == Del(fs, path)

\* Lines 215-219, shutil.rmtree(temp_dir_path, ignore_errors=True): the
\* directory and the chunk files in it.
RemoveTree(fs, file_id) ==
    [x \in {y \in DOMAIN fs : ~(\E g \in TreeOf(file_id), i \in ChunkIndices :
                                    y = get_chunk_file_path(g, i))}
        |-> fs[x]]

\* The registry entry dropped on a hash mismatch.
RegistryDropped(fm, file_id) == Del(fm, file_id)

\* Lines 173-176, a hash mismatch: the handler raises before it reaches the
\* del of line 185, the registry is left as it is.
RegistryAfterMismatch(fm, file_id) == fm

\* Lines 173-193, and the router's answer (router.py 161-169).
MergeFinish(p) ==
    LET r == procs[p]
        target_filename == TargetFilename(r.fileHash, r.fileName)
        target_path == get_upload_file_path(target_filename)
        done(response) == [procs EXCEPT ![p] = [r EXCEPT !.pc = "done",
                                                        !.response = response]]
    IN  /\ Answered /\ r.op = "merge" /\ r.pc = "m_check"
        /\ IF r.actual_hash[1] # r.fileHash
           THEN /\ IF target_path \in DOMAIN files
                   THEN /\ files' = DiscardArtifact(files, target_path)
                        /\ procs' = Unlinked(done(ClientError),
                                             LAMBDA x : HoldsTarget(x, target_path))
                   ELSE /\ files' = files
                        /\ procs' = done(ServerError)
                /\ file_metadata' = RegistryAfterMismatch(file_metadata, r.fileId)
                /\ heap' = Collect(heap, file_metadata', procs')
                /\ UNCHANGED <<hash_to_file, dirs, digest_ok, merge_ok>>
           ELSE /\ dirs' = dirs \ TreeOf(r.fileId)
                /\ files' = RemoveTree(files, r.fileId)
                /\ hash_to_file' = Put(hash_to_file, r.fileHash, target_path)
                /\ digest_ok' = digest_ok \cup {r.fileHash}
                /\ IF r.fileId \in DOMAIN file_metadata
                   THEN /\ file_metadata' = Del(file_metadata, r.fileId)
                        /\ procs' = Unlinked(
                               done(Ok([NoResponse EXCEPT !.fileId = r.fileId,
                                                          !.url = get_file_url(target_filename)])),
                               LAMBDA x : HoldsChunkOf(x, r.fileId))
                        /\ merge_ok' = merge_ok \cup {<<r.fileHash, get_file_url(target_filename)>>}
                   ELSE \* del raises KeyError
                        /\ file_metadata' = file_metadata
                        /\ procs' = Unlinked(done(ServerError),
                                             LAMBDA x : HoldsChunkOf(x, r.fileId))
                        /\ merge_ok' = merge_ok
                /\ heap' = Collect(heap, file_metadata', procs')
        /\ UNCHANGED nstarted

\* ---------------------------------------------------------------- verify_file
VerifyRequest(file_id, file_name, file_hash) ==
    [Idle EXCEPT !.op = "verify", !.fileId = file_id, !.fileName = file_name,
                 !.fileHash = file_hash]

\* Lines 73-74: the sessions of the same hash under another file id.
SameHashSessions(r) ==
    {f \in DOMAIN file_metadata :
        heap[file_metadata[f]].file_hash = r.fileHash /\ heap[file_metadata[f]].file_id # r.fileId}

\* Lines 39-90: no await, the handler runs in one piece.
VerifyWithin(p, r, limit) ==
    LET target_filename == TargetFilename(r.fileHash, r.fileName)
        target_path == get_upload_file_path(target_filename)
        answer(body) == [procs EXCEPT ![p] = [r EXCEPT !.pc = "done", !.response = Ok(body)]]
    IN  /\ CanStart(p, limit)
        /\ nstarted' = nstarted + 1
        /\ IF r.fileId \in DOMAIN file_metadata
           THEN /\ \E listed \in Orders(heap[file_metadata[r.fileId]].uploaded_chunks) :
                     procs' = answer([NoResponse EXCEPT !.fileId = r.fileId,
                                                        !.uploadedChunks = listed])
                /\ hash_to_file' = hash_to_file
           ELSE IF target_path \in DOMAIN files
           THEN /\ procs' = answer([NoResponse EXCEPT !.fileId = r.fileId, !.exists = TRUE,
                                                      !.finish = TRUE,
                                                      !.url = get_file_url(target_filename)])
                /\ hash_to_file' = Put(hash_to_file, r.fileHash, target_path)
           ELSE IF SameHashSessions(r) # {}
           THEN /\ \E f \in SameHashSessions(r) :
                     \E listed \in Orders(heap[file_metadata[f]].uploaded_chunks) :
                       procs' = answer([NoResponse EXCEPT !.fileId = f,
                                                          !.uploadedChunks = listed])
                /\ hash_to_file' = hash_to_file
           ELSE /\ procs' = answer([NoResponse EXCEPT !.fileId = r.fileId])
                /\ hash_to_file' = hash_to_file
        /\ UNCHANGED <<file_metadata, heap, dirs, files, digest_ok, merge_ok>>

VerifyWith(p, r) == VerifyWithin(p, r, MaxOps)

Verify(p) ==
    \E file_id \in ClientIds, file_name \in FileNames, file_hash \in FileHashes :
        VerifyWith(p, VerifyRequest(file_id, file_name, file_hash))

\* The router has answered: the handler is gone.
Deliver(p) ==
    /\ procs[p].pc = "done"
    /\ procs' = [procs EXCEPT ![p] = Idle]
    /\ UNCHANGED <<file_metadata, heap, hash_to_file, dirs, files, nstarted, digest_ok, merge_ok>>

Next ==
    \E p \in Procs :
        \/ UploadStart(p)
        \/ UploadOpen(p)
        \/ UploadWrite(p)
        \/ UploadFinish(p)
        \/ MergeStart(p)
        \/ MergeOpen(p)
        \/ MergeRead(p)
        \/ MergeWrite(p)
        \/ MergeHash(p)
        \/ MergeFinish(p)
        \/ Verify(p)
        \/ Deliver(p)

Spec == Init /\ [][Next]_vars

\* get_file_metadata(file_id), None as the empty sequence.
get_file_metadata(file_id) ==
    IF file_id \in DOMAIN file_metadata THEN <<heap[file_metadata[file_id]]>> ELSE <<>>

\* ------------------------------------------------------- status and list
\* len(metadata.uploaded_chunks) / metadata.chunk_total * 100, as the exact
\* fraction <<numerator, denominator>>; ZeroDivisionError is <<>>.
Progress(m) ==
    IF m.chunk_total = 0 THEN <<>>
    ELSE <<100 * Cardinality(m.uploaded_chunks), m.chunk_total>>

\* An exception no handler of the route catches: the framework answers 500.
Unhandled == [NoResponse EXCEPT !.code = 500]
NotFound == [NoResponse EXCEPT !.code = 404]

StatusRequest(file_id) == [Idle EXCEPT !.op = "status", !.fileId = file_id]

\* router.py 188-203, GET /status/{file_id}: no await.
GetUploadStatusWithin(p, r, limit) ==
    LET metadata == get_file_metadata(r.fileId)
        answer(response) == [procs EXCEPT ![p] = [r EXCEPT !.pc = "done",
                                                          !.response = response]]
    IN  /\ CanStart(p, limit)
        /\ nstarted' = nstarted + 1
        /\ IF metadata = <<>>
           THEN procs' = answer(NotFound)
           ELSE IF Progress(metadata[1]) = <<>>
           THEN procs' = answer(Unhandled)
           ELSE \E listed \in Orders(metadata[1].uploaded_chunks) :
                  procs' = answer(Ok([NoResponse EXCEPT
                                        !.fileId = metadata[1].file_id,
                                        !.uploadedChunks = listed,
                                        !.progress = Progress(metadata[1]),
                                        !.status = metadata[1].status]))
        /\ UNCHANGED <<file_metadata, heap, hash_to_file, dirs, files, digest_ok, merge_ok>>

\* service.py 229-231: the registered sessions.
list_uploading_files == {heap[file_metadata[f]] : f \in DOMAIN file_metadata}

\* router.py 205-220, GET /list: no await.  The order of the list is left out.
ListUploadingFilesWithin(p, limit) ==
    LET r == [Idle EXCEPT !.op = "list"]
        answer(response) == [procs EXCEPT ![p] = [r EXCEPT !.pc = "done",
                                                          !.response = response]]
    IN  /\ CanStart(p, limit)
        /\ nstarted' = nstarted + 1
        /\ IF \E m \in list_uploading_files : Progress(m) = <<>>
           THEN procs' = answer(Unhandled)
           ELSE procs' = answer(Ok([NoResponse EXCEPT !.listed =
                    {[fileId |-> m.file_id, chunkTotal |-> m.chunk_total,
                      uploadedChunks |-> Cardinality(m.uploaded_chunks),
                      progress |-> Progress(m), status |-> m.status]
                       : m \in list_uploading_files}]))
        /\ UNCHANGED <<file_metadata, heap, hash_to_file, dirs, files, digest_ok, merge_ok>>

\* --------------------------------------------------- one client, one file
\* A client that uploads the chunks of one file under one file id, each with
\* its own bytes, in any order and as often as it likes, several at a time,
\* and asks for the merge once every chunk was answered.
ScenarioId == FileIdOrder[1]

ScenarioUploadStart(p) ==
    \E file_name \in UploadNames, chunk_index \in ChunkIndices, n \in ChunkTotals :
        /\ chunk_index < n
        /\ \A q \in Procs : procs[q].op # "merge"
        /\ ScenarioId \in DOMAIN file_metadata =>
               n = heap[file_metadata[ScenarioId]].chunk_total
        /\ UploadStartWith(p, UploadRequest(ScenarioId, file_name, chunk_index,
                                            Declared(n).chunkTotal, Declared(n).fileHash),
                           MaxScenarioOps)

ScenarioUploadWrite(p) == UploadWriteWith(p, GoodChunk(procs[p].chunkIndex))

ScenarioMergeStart(p) ==
    \E file_name \in FileNames :
        /\ \A q \in Procs : procs[q].pc = "idle"
        /\ ScenarioId \in DOMAIN file_metadata
        /\ LET m == heap[file_metadata[ScenarioId]]
           IN  /\ m.uploaded_chunks = 0..(m.chunk_total - 1)
               /\ MergeStartWith(p, MergeRequest(ScenarioId, file_name, m.file_hash,
                                                 m.chunk_total), MaxScenarioOps)

ScenarioNext ==
    \E p \in Procs :
        \/ ScenarioUploadStart(p)
        \/ UploadOpen(p)
        \/ ScenarioUploadWrite(p)
        \/ UploadFinish(p)
        \/ ScenarioMergeStart(p)
        \/ MergeOpen(p)
        \/ MergeRead(p)
        \/ MergeWrite(p)
        \/ MergeHash(p)
        \/ MergeFinish(p)
        \/ Deliver(p)

ScenarioSpec == Init /\ [][ScenarioNext]_vars

\* ------------------------------------------- one client, one file, verifies
\* The same client, that also asks with verify, at any time, whether the file
\* is there.
ScenarioVerify(p) ==
    \E file_name \in FileNames, n \in ChunkTotals :
        VerifyWithin(p, VerifyRequest(ScenarioId, file_name, Declared(n).fileHash),
                     MaxScenarioOps)

ResumeNext ==
    \E p \in Procs :
        \/ ScenarioUploadStart(p)
        \/ UploadOpen(p)
        \/ ScenarioUploadWrite(p)
        \/ UploadFinish(p)
        \/ ScenarioMergeStart(p)
        \/ MergeOpen(p)
        \/ MergeRead(p)
        \/ MergeWrite(p)
        \/ MergeHash(p)
        \/ MergeFinish(p)
        \/ ScenarioVerify(p)
        \/ Deliver(p)

ResumeSpec == Init /\ [][ResumeNext]_vars

\* --------------------------------------------- with the status and the list
\* The service with its status and list routes, and with uploads that declare
\* any chunk count from 0.
StatusUploadStart(p) ==
    \E file_id \in ClientIds, file_name \in UploadNames, chunk_index \in ChunkIndices,
       n \in 0..MaxChunk :
        UploadStartWith(p, UploadRequest(file_id, file_name, chunk_index,
                                         Declared(n).chunkTotal, Declared(n).fileHash),
                        MaxOps)

GetUploadStatus(p) ==
    \E file_id \in ClientIds : GetUploadStatusWithin(p, StatusRequest(file_id), MaxOps)

ListUploadingFiles(p) == ListUploadingFilesWithin(p, MaxOps)

StatusNext ==
    \E p \in Procs :
        \/ StatusUploadStart(p)
        \/ UploadOpen(p)
        \/ UploadWrite(p)
        \/ UploadFinish(p)
        \/ MergeStart(p)
        \/ MergeOpen(p)
        \/ MergeRead(p)
        \/ MergeWrite(p)
        \/ MergeHash(p)
        \/ MergeFinish(p)
        \/ GetUploadStatus(p)
        \/ ListUploadingFiles(p)
        \/ Deliver(p)

StatusSpec == Init /\ [][StatusNext]_vars

\* ----------------------------------------------- file ids that are paths
\* Clients whose file ids are "u1" and a path inside its staging directory.
NestedIds == {"u1", NestedId}

NestedUploadStart(p) ==
    \E file_id \in NestedIds, chunk_index \in ChunkIndices, n \in ChunkTotals :
        UploadStartWith(p, UploadRequest(file_id, <<"f", ".", "a">>, chunk_index,
                                         Declared(n).chunkTotal, Declared(n).fileHash),
                        MaxOps)

NestedMergeStart(p) ==
    \E file_id \in NestedIds, n \in ChunkTotals :
        MergeStartWith(p, MergeRequest(file_id, <<"f", ".", "a">>, Declared(n).fileHash,
                                       Declared(n).chunkTotal), MaxOps)

NestedVerify(p) ==
    \E file_id \in NestedIds, file_hash \in FileHashes :
        VerifyWithin(p, VerifyRequest(file_id, <<"f", ".", "a">>, file_hash), MaxOps)

NestedNext ==
    \E p \in Procs :
        \/ NestedUploadStart(p)
        \/ UploadOpen(p)
        \/ UploadWrite(p)
        \/ UploadFinish(p)
        \/ NestedMergeStart(p)
        \/ MergeOpen(p)
        \/ MergeRead(p)
        \/ MergeWrite(p)
        \/ MergeHash(p)
        \/ MergeFinish(p)
        \/ NestedVerify(p)
        \/ Deliver(p)

NestedSpec == Init /\ [][NestedNext]_vars

\* ------------------------------------------------- the Flask server, app.py
\* The Flask server is another program with a state of the same shape: in the
\* behaviours of FlaskSpec file_metadata is app.py's global dict (file id ->
\* dict object), heap holds the dict objects, dirs and files are its folders,
\* and procs are its request threads.  Threads may be switched between any
\* two bytecodes; the steps below are switched only between statements.

\* werkzeug's secure_filename, on names of letters, dots and underscores:
\* leading and trailing dots and underscores are stripped.
secure_filename(name) ==
    LET kept == {k \in 1..Len(name) : name[k] \notin {".", "_"}}
    IN  IF kept = {} THEN <<>>
        ELSE SubSeq(name, CHOOSE k \in kept : \A j \in kept : k <= j,
                          CHOOSE k \in kept : \A j \in kept : j <= k)

\* Lines 111-114 and 175-178: f"{file_hash}{file_ext}" under UPLOAD_FOLDER.
FlaskTargetFilename(file_hash, file_name) ==
    <<file_hash, SplitExt(secure_filename(file_name))>>
FlaskTargetPath(r) == get_upload_file_path(FlaskTargetFilename(r.fileHash, r.fileName))

\* Lines 60-65: the dict of a new file id (the keys the merge adds are there
\* from the start, empty).
FlaskMetadata(file_name, file_hash, chunk_total) ==
    [fileName |-> file_name, fileHash |-> file_hash, chunkTotal |-> chunk_total,
     uploadedChunks |-> <<>>, filePath |-> <<>>, fileUrl |-> <<>>, status |-> ""]

FlaskAnswer(p, r, response) ==
    [procs EXCEPT ![p] = [r EXCEPT !.pc = "done", !.response = response]]

\* Lines 36-56: the form is read, the folder made and the chunk saved.
FlaskUploadStart(p) ==
    \E file_id \in ClientIds, chunk_index \in ChunkIndices, n \in ChunkTotals :
      \E content \in {GoodChunk(chunk_index), BadChunk} :
        LET r == [Idle EXCEPT !.op = "flask_upload", !.fileId = file_id,
                              !.fileName = <<"f", ".", "a">>, !.chunkIndex = chunk_index,
                              !.chunkTotal = Declared(n).chunkTotal,
                              !.fileHash = Declared(n).fileHash, !.content = content]
        IN  /\ CanStart(p, MaxOps)
            /\ nstarted' = nstarted + 1
            /\ dirs' = dirs \cup {file_id}
            /\ files' = Put(files, get_chunk_file_path(file_id, chunk_index), content)
            /\ procs' = [procs EXCEPT ![p] = [r EXCEPT !.pc = "f_check"]]
            /\ UNCHANGED <<file_metadata, heap, hash_to_file, digest_ok, merge_ok>>

\* Line 59: if file_id not in file_metadata
FlaskUploadCheck(p) ==
    LET r == procs[p]
    IN  /\ Answered /\ r.op = "flask_upload" /\ r.pc = "f_check"
        /\ procs' = [procs EXCEPT ![p].pc =
                        IF r.fileId \notin DOMAIN file_metadata THEN "f_create" ELSE "f_test"]
        /\ UNCHANGED <<file_metadata, heap, hash_to_file, dirs, files, nstarted,
                       digest_ok, merge_ok>>

\* Lines 60-65: file_metadata[file_id] = {...}
FlaskUploadCreate(p) ==
    LET r == procs[p]
        fm == Put(file_metadata, r.fileId, NewObj)
    IN  /\ Answered /\ r.op = "flask_upload" /\ r.pc = "f_create"
        /\ file_metadata' = fm
        /\ procs' = [procs EXCEPT ![p].pc = "f_test"]
        /\ heap' = Collect(Put(heap, NewObj,
                               FlaskMetadata(r.fileName, r.fileHash, r.chunkTotal)),
                           fm, procs')
        /\ UNCHANGED <<hash_to_file, dirs, files, nstarted, digest_ok, merge_ok>>

InList(x, list) == \E k \in 1..Len(list) : list[k] = x

\* Line 68: if chunk_index not in file_metadata[file_id]['uploadedChunks'];
\* lines 71-75 when the index is there already.
FlaskUploadTest(p) ==
    LET r == procs[p]
        uploadedChunks == heap[file_metadata[r.fileId]].uploadedChunks
    IN  /\ Answered /\ r.op = "flask_upload" /\ r.pc = "f_test"
        /\ procs' = IF InList(r.chunkIndex, uploadedChunks)
                       THEN FlaskAnswer(p, r, Ok([NoResponse EXCEPT !.fileId = r.fileId]))
                       ELSE [procs EXCEPT ![p].pc = "f_append"]
        /\ UNCHANGED <<file_metadata, heap, hash_to_file, dirs, files, nstarted,
                       digest_ok, merge_ok>>

\* Lines 69-75: file_metadata[file_id]['uploadedChunks'].append(chunk_index)
FlaskUploadAppend(p) ==
    LET r == procs[p]
        o == file_metadata[r.fileId]
    IN  /\ Answered /\ r.op = "flask_upload" /\ r.pc = "f_append"
        /\ heap' = [heap EXCEPT ![o].uploadedChunks = Append(@, r.chunkIndex)]
        /\ procs' = FlaskAnswer(p, r, Ok([NoResponse EXCEPT !.fileId = r.fileId]))
        /\ UNCHANGED <<file_metadata, hash_to_file, dirs, files, nstarted,
                       digest_ok, merge_ok>>

\* A merge call of the Flask server has its target open for writing.
FlaskHoldsTarget(r, path) ==
    r.op = "flask_merge" /\ r.pc = "fm_copy" /\ FlaskTargetPath(r) = path

\* Lines 88-108: the request is read and checked against the metadata.
FlaskMergeStart(p) ==
    \E file_id \in ClientIds, file_name \in FileNames, n \in 0..MaxChunk :
        LET r == [Idle EXCEPT !.op = "flask_merge", !.fileId = file_id,
                              !.fileName = file_name, !.chunkTotal = n,
                              !.fileHash = IF n = 0 THEN Sha256(<<>>)
                                           ELSE Declared(n).fileHash,
                              !.after_merge =
                                  /\ file_id \in DOMAIN file_metadata
                                  /\ heap[file_metadata[file_id]].status = "completed"]
        IN  /\ CanStart(p, MaxOps)
            /\ nstarted' = nstarted + 1
            /\ procs' =
                 IF n = 0
                 THEN FlaskAnswer(p, r, ClientError)
                 ELSE IF file_id \notin DOMAIN file_metadata
                 THEN FlaskAnswer(p, r, NotFound)
                 ELSE IF Len(heap[file_metadata[file_id]].uploadedChunks) # n
                 THEN FlaskAnswer(p, r, ClientError)
                 ELSE [procs EXCEPT ![p] = [r EXCEPT !.pc = "fm_open"]]
            /\ UNCHANGED <<file_metadata, heap, hash_to_file, dirs, files,
                           digest_ok, merge_ok>>

\* Line 117: open(target_path, 'wb') creates or truncates the target.
FlaskMergeOpen(p) ==
    LET r == procs[p]
    IN  /\ Answered /\ r.op = "flask_merge" /\ r.pc = "fm_open"
        /\ files' = Put(files, FlaskTargetPath(r), <<>>)
        /\ procs' = [procs EXCEPT ![p] = [r EXCEPT !.pc = "fm_copy", !.i = 0,
                                                     !.pos = 0, !.linked = TRUE]]
        /\ UNCHANGED <<file_metadata, heap, hash_to_file, dirs, nstarted,
                       digest_ok, merge_ok>>

\* Lines 119-122: one turn of the loop; open(chunk_path, 'rb') raises
\* FileNotFoundError for a missing chunk file, caught at line 155.
FlaskMergeCopy(p) ==
    LET r == procs[p]
        chunk_path == get_chunk_file_path(r.fileId, r.i)
        target == FlaskTargetPath(r)
    IN  /\ Answered /\ r.op = "flask_merge" /\ r.pc = "fm_copy"
        /\ IF chunk_path \notin DOMAIN files
           THEN /\ procs' = FlaskAnswer(p, r, ServerError)
                /\ files' = files
           ELSE /\ files' = IF r.linked
                               THEN Put(files, target,
                                        WriteAt(files[target], r.pos, files[chunk_path]))
                               ELSE files
                /\ procs' = [procs EXCEPT ![p] =
                     [r EXCEPT !.i = r.i + 1,
                               !.pos = r.pos + Len(files[chunk_path]),
                               !.pc = IF r.i + 1 = r.chunkTotal THEN "fm_hash"
                                      ELSE "fm_copy"]]
        /\ UNCHANGED <<file_metadata, heap, hash_to_file, dirs, nstarted,
                       digest_ok, merge_ok>>

\* Lines 125-127: the target is read back and hashed.
FlaskMergeHash(p) ==
    LET r == procs[p]
        target == FlaskTargetPath(r)
    IN  /\ Answered /\ r.op = "flask_merge" /\ r.pc = "fm_hash"
        /\ procs' = IF target \notin DOMAIN files
                       THEN FlaskAnswer(p, r, ServerError)
                       ELSE [procs EXCEPT ![p] =
                               [r EXCEPT !.pc = "fm_finish",
                                         !.actual_hash = Some(Sha256(files[target]))]]
        /\ UNCHANGED <<file_metadata, heap, hash_to_file, dirs, files, nstarted,
                       digest_ok, merge_ok>>

\* Lines 142-146: file_metadata[file_id].update({...})
FlaskCompleted(m, r) ==
    [m EXCEPT !.filePath = FlaskTargetPath(r),
              !.fileUrl = get_file_url(FlaskTargetFilename(r.fileHash, r.fileName)),
              !.status = "completed"]

\* Lines 130-153: a mismatch removes the target and answers 400; otherwise
\* the chunk folder is purged, the metadata updated and the URL returned.
FlaskMergeFinish(p) ==
    LET r == procs[p]
        target == FlaskTargetPath(r)
        url == get_file_url(FlaskTargetFilename(r.fileHash, r.fileName))
        o == file_metadata[r.fileId]
    IN  /\ Answered /\ r.op = "flask_merge" /\ r.pc = "fm_finish"
        /\ IF r.actual_hash # Some(r.fileHash)
           THEN /\ files' = Del(files, target)
                /\ procs' = Unlinked(FlaskAnswer(p, r,
                                IF target \in DOMAIN files THEN ClientError
                                ELSE ServerError),
                              LAMBDA q : FlaskHoldsTarget(q, target))
                /\ UNCHANGED <<heap, dirs, merge_ok>>
           ELSE /\ files' = RemoveTree(files, r.fileId)
                /\ dirs' = dirs \ {r.fileId}
                /\ heap' = [heap EXCEPT ![o] = FlaskCompleted(@, r)]
                /\ merge_ok' = merge_ok \cup {<<r.fileHash, url>>}
                /\ procs' = FlaskAnswer(p, r, Ok([NoResponse EXCEPT !.fileId = r.fileId,
                                                                    !.url = url]))
        /\ UNCHANGED <<file_metadata, hash_to_file, nstarted, digest_ok>>

FlaskNext ==
    \E p \in Procs :
        \/ FlaskUploadStart(p)
        \/ FlaskUploadCheck(p)
        \/ FlaskUploadCreate(p)
        \/ FlaskUploadTest(p)
        \/ FlaskUploadAppend(p)
        \/ FlaskMergeStart(p)
        \/ FlaskMergeOpen(p)
        \/ FlaskMergeCopy(p)
        \/ FlaskMergeHash(p)
        \/ FlaskMergeFinish(p)
        \/ Deliver(p)

FlaskSpec == Init /\ [][FlaskNext]_vars

\* ------------------------------------------------------------------ claims
Uploads(r) == r.op = "upload"
Merges(r) == r.op = "merge"
Verifies(r) == r.op = "verify"
\* A merge handler that has opened its target and not yet answered.
Assembling(r) == Merges(r) /\ r.pc \in {"m_read", "m_write", "m_hash", "m_check"}
\* The registered session of a file id, where there is one.
Session(file_id) == heap[file_metadata[file_id]]
\* The chunk files on disk.
ChunkFiles(fs) == [x \in {y \in DOMAIN fs : y[1] = "temp"} |-> fs[x]]
\* The registered sessions, by file id.
Sessions == [f \in DOMAIN file_metadata |-> heap[file_metadata[f]]]

\* C1: two merge calls for one uploadID never assemble at the same time: one
\* proceeds, the other is refused before it writes to the artifact.
C1_MergeMutualExclusion ==
    \A p, q \in Procs :
        (p # q /\ Assembling(procs[p]) /\ Assembling(procs[q]))
            => procs[p].fileId # procs[q].fileId

\* The concatenation of chunks 0..n-1 in ascending index order.
RECURSIVE Concatenation(_)
Concatenation(n) == IF n = 0 THEN <<>> ELSE Concatenation(n - 1) \o GoodChunk(n - 1)

\* C2: after all n chunks of one upload were uploaded, in any order and with
\* any repeats, the merge succeeds and the artifact it publishes is the
\* concatenation of chunks 0..n-1, whose digest is the declared content hash.
C2_MergePublishesFile ==
    \A p \in Procs :
        (Merges(procs[p]) /\ procs[p].pc = "done") =>
            /\ procs[p].response.code = 200
            /\ TargetPath(procs[p]) \in DOMAIN files
            /\ files[TargetPath(procs[p])] = Concatenation(procs[p].chunkTotal)
            /\ Sha256(files[TargetPath(procs[p])]) = procs[p].fileHash
            /\ procs[p].response.url
                 = get_file_url(TargetFilename(procs[p].fileHash, procs[p].fileName))

\* A merge of the largest file has succeeded after more uploads than the file
\* has chunks (one was a repeat).
C2_Witness ==
    \E p \in Procs :
        /\ Merges(procs[p]) /\ procs[p].pc = "done"
        /\ procs[p].response.code = 200
        /\ procs[p].chunkTotal = MaxChunk
        /\ nstarted > MaxChunk + 1

\* C3: the dedup index holds an entry for a hash only if some merge found its
\* assembled artifact's digest equal to that hash before.
C3_DedupOnlyAfterDigestMatch == DOMAIN hash_to_file \subseteq digest_ok

\* The step by which handler p answers a verify call.
VerifyAnswers(p) ==
    procs[p].pc = "idle" /\ procs'[p].pc = "done" /\ Verifies(procs'[p])

\* C4: once a merge for content hash H has succeeded, every later verify of H
\* answers exists=true, finish=true with the URL that merge returned.
C4_VerifyAfterMergeFindsArtifact ==
    [][\A p \in Procs :
          (VerifyAnswers(p) /\ \E hu \in merge_ok : hu[1] = procs'[p].fileHash) =>
              /\ procs'[p].response.exists
              /\ procs'[p].response.finish
              /\ <<procs'[p].fileHash, procs'[p].response.url>> \in merge_ok]_vars

\* The step by which handler p takes a merge call.
MergeCalled(p) == procs[p].pc = "idle" /\ Merges(procs'[p])

\* Every index in [0, chunkCount) of the session's own chunkCount is received.
FullyReceived(m) == \A i \in 0..(m.chunk_total - 1) : i \in m.uploaded_chunks

\* C5: a merge call on a session that has not received every chunk of its own
\* chunkCount fails with a client error, starts no assembly and changes nothing.
C5_IncompleteMergeRefused ==
    [][\A p \in Procs :
          (/\ MergeCalled(p)
           /\ procs'[p].fileId \in DOMAIN file_metadata
           /\ ~FullyReceived(Session(procs'[p].fileId))) =>
              /\ procs'[p].pc = "done"
              /\ procs'[p].response.code = 400
              /\ Sessions' = Sessions
              /\ UNCHANGED <<hash_to_file, dirs, files>>]_vars

\* C6: every received index of every session is in [0, chunkCount).
C6_ReceivedInRange ==
    \A f \in DOMAIN file_metadata :
        Session(f).uploaded_chunks \subseteq 0..(Session(f).chunk_total - 1)

\* The step by which handler p takes an upload call.
UploadCalled(p) == procs[p].pc = "idle" /\ Uploads(procs'[p])

\* C7: an upload call for an existing uploadID that declares another
\* chunkCount or contentHash than the session's is rejected, and the session
\* stays as it was.
C7_InconsistentUploadRejected ==
    [][\A p \in Procs :
          (/\ UploadCalled(p)
           /\ procs'[p].fileId \in DOMAIN file_metadata
           /\ \/ Session(procs'[p].fileId).chunk_total # procs'[p].chunkTotal
              \/ Session(procs'[p].fileId).file_hash # procs'[p].fileHash) =>
              /\ procs'[p].pc = "done"
              /\ procs'[p].response.code = 400
              /\ Sessions' = Sessions]_vars

\* The step by which an upload handler answers (from the open that failed, or
\* from the end).
UploadAnswers(p) ==
    Uploads(procs[p]) /\ procs[p].pc \in {"u_open", "u_check"} /\ procs'[p].pc = "done"

\* s lists the members of S, each once.
Lists(s, S) == Len(s) = Cardinality(S) /\ {s[k] : k \in 1..Len(s)} = S

\* C8: an upload of an index the session had already received, the session
\* still being the registered one, succeeds, leaves receivedChunks as it was
\* and returns it with each index once.
C8_RetryIsIdempotent ==
    [][\A p \in Procs :
          (/\ UploadAnswers(p)
           /\ procs[p].had_chunk
           /\ get_file_metadata(procs[p].fileId) # <<>>
           /\ file_metadata[procs[p].fileId] = procs[p].metadata
           /\ ~ChunkHashMismatch(procs'[p].chunkHash, procs'[p].content)) =>
              /\ procs'[p].response.code = 200
              /\ heap'[procs[p].metadata].uploaded_chunks
                   = heap[procs[p].metadata].uploaded_chunks
              /\ Lists(procs'[p].response.uploadedChunks,
                       heap[procs[p].metadata].uploaded_chunks)]_vars

\* An upload of an index already received has been answered with success,
\* the session holding another index as well.
C8_Witness ==
    \E p \in Procs :
        /\ Uploads(procs[p]) /\ procs[p].pc = "done" /\ procs[p].had_chunk
        /\ procs[p].response.code = 200
        /\ procs[p].fileId \in DOMAIN file_metadata
        /\ file_metadata[procs[p].fileId] = procs[p].metadata
        /\ Cardinality(Session(procs[p].fileId).uploaded_chunks) > 1
        /\ files[get_chunk_file_path(procs[p].fileId, procs[p].chunkIndex)] = procs[p].content

\* C9: an upload call whose chunkHash differs from the digest of its bytes is
\* answered with a client error and leaves receivedChunks as it was.
C9_MismatchIsClientError ==
    [][\A p \in Procs :
          (UploadAnswers(p) /\ ChunkHashMismatch(procs'[p].chunkHash, procs'[p].content)) =>
              /\ procs'[p].response.code = 400
              /\ Sessions' = Sessions]_vars

\* The step by which a merge handler that found another digest than the
\* declared hash answers.
MergeMismatchAnswers(p) ==
    /\ Merges(procs[p]) /\ procs[p].pc = "m_check" /\ procs'[p].pc = "done"
    /\ procs[p].actual_hash # Some(procs[p].fileHash)

MergeAnswers(p) ==
    Merges(procs'[p]) /\ procs[p].pc # "done" /\ procs'[p].pc = "done"

ArtifactFor(r) ==
    /\ TargetPath(r) \in DOMAIN files
    /\ Sha256(files[TargetPath(r)]) = r.fileHash
    /\ \A q \in Procs : ~(Assembling(procs[q]) /\ TargetPath(procs[q]) = TargetPath(r))

\* The registered sessions a verify request may resume: the one of its file
\* id, and those of its hash.
SessionsFor(r) ==
    {f \in DOMAIN file_metadata : f = r.fileId \/ Session(f).file_hash = r.fileHash}

\* C12: verify answers exists=true, finish=true and the artifact's URL
\* whenever the artifact is there, whatever sessions are in progress; the
\* chunks of a session in progress only when no artifact is there; an empty
\* list when neither is there.
C12_VerifyPriority ==
    [][\A p \in Procs :
          VerifyAnswers(p) =>
            LET q == procs'[p]
            IN  /\ ArtifactFor(q) =>
                      /\ q.response.exists /\ q.response.finish
                      /\ q.response.url = get_file_url(TargetFilename(q.fileHash, q.fileName))
                /\ (~ArtifactFor(q) /\ SessionsFor(q) # {}) =>
                      /\ ~q.response.exists
                      /\ \E f \in SessionsFor(q) :
                            Lists(q.response.uploadedChunks, Session(f).uploaded_chunks)
                /\ (~ArtifactFor(q) /\ SessionsFor(q) = {}) =>
                      /\ ~q.response.exists
                      /\ q.response.uploadedChunks = <<>>]_vars


\* C13: a verify that answers exists=false under the uploadID of a session in
\* progress answers with that session's uploadID and exactly its received
\* chunks, and the session's content hash is the one the request asks for.
C13_ResumedSessionMatches ==
    [][\A p \in Procs :
          (/\ VerifyAnswers(p)
           /\ ~procs'[p].response.exists
           /\ procs'[p].response.fileId \in DOMAIN file_metadata) =>
              LET m == Session(procs'[p].response.fileId)
              IN  /\ m.file_id = procs'[p].response.fileId
                  /\ m.file_hash = procs'[p].fileHash
                  /\ Lists(procs'[p].response.uploadedChunks, m.uploaded_chunks)]_vars


\* The step by which a merge handler answers success.
MergeSucceeds(p) == MergeAnswers(p) /\ procs'[p].response.code = 200

\* C14: in the state in which a merge of uploadID u and hash H returns
\* success, u is not in the registry, no chunk of u is staged, the dedup index
\* maps H to the artifact's path, and the artifact is there for a following
\* verify of u and H to find.
C14_StateAfterMergeSuccess ==
    [][\A p \in Procs :
          MergeSucceeds(p) =>
            LET r == procs[p]
            IN  /\ r.fileId \notin DOMAIN file_metadata'
                /\ \A x \in DOMAIN files' : ~(x[1] = "temp" /\ x[2] = r.fileId)
                /\ r.fileHash \in DOMAIN hash_to_file'
                /\ hash_to_file'[r.fileHash] = TargetPath(r)
                /\ TargetPath(r) \in DOMAIN files']_vars


\* The files under an artifact name.
Artifacts(fs) == {x \in DOMAIN fs : x[1] = "uploads"}

\* C15: a file is under an artifact name only once a merge found its digest
\* equal to the content hash of that name, and a verify answers exists=true
\* only for a hash of which that was found.
C15_PublicationIsAtomic ==
    [][/\ \A x \in Artifacts(files') : x[2][1] \in digest_ok'
       /\ \A p \in Procs :
             (VerifyAnswers(p) /\ procs'[p].response.exists)
                => procs'[p].fileHash \in digest_ok]_vars


\* The step by which a merge handler that has opened its target fails before
\* the assembly is over: a chunk file is missing.
MergeFailsInAssembly(p) ==
    /\ MergeAnswers(p)
    /\ procs[p].pc \in {"m_open", "m_read", "m_write"}
    /\ procs'[p].response.code # 200

\* C16: a merge that fails during assembly leaves no file under its artifact
\* name and adds no dedup entry.
C16_FailedAssemblyDiscardsArtifact ==
    [][\A p \in Procs :
          MergeFailsInAssembly(p) =>
              /\ TargetPath(procs[p]) \notin DOMAIN files'
              /\ hash_to_file' = hash_to_file]_vars


\* A file under an artifact name that a merge returned success for, with the
\* bytes of its content hash.
Published(fs, x) ==
    /\ x \in Artifacts(fs)
    /\ <<x[2][1], get_file_url(x[2])>> \in merge_ok
    /\ Sha256(fs[x]) = x[2][1]

\* C17: a published artifact stays where it is, with the bytes of its content
\* hash, whatever happens next.
C17_PublishedArtifactStays ==
    [][\A x \in DOMAIN files : Published(files, x) => Published(files', x)]_vars


\* C18: a merge returns success only if its request declares the content hash
\* recorded in the session, and the digest it computed of the artifact is
\* that hash.
C18_MergeChecksSessionHash ==
    [][\A p \in Procs :
          (MergeSucceeds(p) /\ procs[p].fileId \in DOMAIN file_metadata) =>
              /\ procs[p].fileHash = Session(procs[p].fileId).file_hash
              /\ procs[p].actual_hash = Some(Session(procs[p].fileId).file_hash)]_vars


\* An upload handler has opened the file at the staging location x and has
\* not yet written it: what is at x is a chunk partially written.
BeingWritten(x) ==
    \E q \in Procs :
        /\ Uploads(procs[q]) /\ procs[q].pc = "u_write" /\ procs[q].linked
        /\ get_chunk_file_path(procs[q].fileId, procs[q].chunkIndex) = x

\* C19: no merge reads, and no other upload of the same chunk opens, a chunk
\* file that an upload is still writing.
C19_ChunkWritesAtomic ==
    [][\A p \in Procs :
          /\ (Merges(procs[p]) /\ procs[p].pc = "m_read" /\ procs'[p].pc = "m_write")
                => ~BeingWritten(get_chunk_file_path(procs[p].fileId, procs[p].i))
          /\ (Uploads(procs[p]) /\ procs[p].pc = "u_open" /\ procs'[p].pc = "u_write")
                => ~BeingWritten(get_chunk_file_path(procs[p].fileId,
                                                     procs[p].chunkIndex))]_vars


\* The step by which an upload handler answers success.
UploadSucceeds(p) == UploadAnswers(p) /\ procs'[p].response.code = 200

\* C20: as long as no merge has succeeded, every session stays registered
\* under its uploadID as the same object and loses no received index, and an
\* upload that answers success has added its index to the registered session.
C20_NoLostUpdate ==
    [][merge_ok' = {} =>
          /\ \A f \in DOMAIN file_metadata :
                /\ f \in DOMAIN file_metadata'
                /\ file_metadata'[f] = file_metadata[f]
                /\ Session(f).uploaded_chunks \subseteq heap'[file_metadata'[f]].uploaded_chunks
          /\ \A p \in Procs :
                UploadSucceeds(p) =>
                    /\ procs[p].fileId \in DOMAIN file_metadata'
                    /\ file_metadata'[procs[p].fileId] = procs[p].metadata
                    /\ procs[p].chunkIndex
                          \in heap'[procs[p].metadata].uploaded_chunks]_vars

\* An upload has answered success with two indices in its list while an
\* upload of another index of the same uploadID is under way, on the same
\* session.
C20_Witness ==
    \E p, q \in Procs :
        /\ Uploads(procs[p]) /\ procs[p].pc = "done" /\ procs[p].response.code = 200
        /\ Len(procs[p].response.uploadedChunks) = 2
        /\ Uploads(procs[q]) /\ procs[q].pc \in {"u_write", "u_check"}
        /\ procs[q].fileId = procs[p].fileId
        /\ procs[q].chunkIndex # procs[p].chunkIndex
        /\ procs[q].metadata = procs[p].metadata
        /\ file_metadata[procs[p].fileId] = procs[p].metadata
        /\ merge_ok = {}


\* The step by which handler p answers a status call, or a list call.
StatusAnswers(p) ==
    procs[p].pc = "idle" /\ procs'[p].pc = "done" /\ procs'[p].op = "status"
ListAnswers(p) ==
    procs[p].pc = "idle" /\ procs'[p].pc = "done" /\ procs'[p].op = "list"

\* A merge of the session of file_id is assembling or verifying.
MergeUnderWay(file_id) ==
    \E q \in Procs : Assembling(procs[q]) /\ procs[q].fileId = file_id

\* The place of a status in Receiving -> Merging -> Completed or Failed.
StatusRank(status) ==
    IF status = "uploading" THEN 0 ELSE IF status = "merging" THEN 1 ELSE 2

\* C21: while a merge of a session is assembling or verifying, the status and
\* list operations report the session as merging, and no session's status
\* goes back to an earlier one.
C21_StatusFollowsStateMachine ==
    [][/\ \A p \in Procs :
             /\ (/\ StatusAnswers(p) /\ procs'[p].response.code = 200
                 /\ MergeUnderWay(procs'[p].fileId))
                   => procs'[p].response.status = "merging"
             /\ (ListAnswers(p) /\ procs'[p].response.code = 200)
                   => \A e \in procs'[p].response.listed :
                         MergeUnderWay(e.fileId) => e.status = "merging"
       /\ \A k \in (DOMAIN heap) \cap (DOMAIN heap') :
             StatusRank(heap'[k].status) >= StatusRank(heap[k].status)]_vars

\* The steps of the Flask server's threads.
FlaskMerges(r) == r.op = "flask_merge"
FlaskUploads(r) == r.op = "flask_upload"
\* The indices in a Flask entry's uploadedChunks.
Recorded(h, fm, f) == {h[fm[f]].uploadedChunks[k] : k \in 1..Len(h[fm[f]].uploadedChunks)}
\* An upload thread that will still record index j of file f.
WillRecord(r, f, j) ==
    /\ FlaskUploads(r) /\ r.fileId = f /\ r.chunkIndex = j
    /\ r.pc \in {"f_check", "f_create", "f_test", "f_append"}

\* C22: in the Flask server, a merge-chunks call that comes for a file id
\* after a merge of it has succeeded leaves the artifact that merge published
\* in place with the same bytes, at each of its steps.
C22_FlaskMergeIdempotent ==
    [][\A p \in Procs :
          (/\ FlaskMerges(procs'[p]) /\ procs'[p].after_merge
           /\ procs'[p] # procs[p]
           /\ procs'[p].fileId \in DOMAIN file_metadata
           /\ heap[file_metadata[procs'[p].fileId]].status = "completed"
           /\ heap[file_metadata[procs'[p].fileId]].filePath \in DOMAIN files)
          => LET path == heap[file_metadata[procs'[p].fileId]].filePath
             IN  path \in DOMAIN files' /\ files'[path] = files[path]]_vars

\* C23: in the Flask server, whatever the interleaving of the threads, an
\* upload-chunk call that returns success has its index in the entry's
\* uploadedChunks, and no index leaves an entry's uploadedChunks unless an
\* upload call for that same index is still under way and will record it
\* again; so once all calls have returned, every uploaded index is there.
C23_FlaskNoLostUpdate ==
    [][/\ \A p \in Procs :
            (/\ FlaskUploads(procs[p]) /\ procs[p].pc # "done"
             /\ procs'[p].pc = "done" /\ procs'[p].response.code = 200)
            => procs[p].chunkIndex \in Recorded(heap', file_metadata', procs[p].fileId)
       /\ \A f \in DOMAIN file_metadata :
            \A j \in Recorded(heap, file_metadata, f) :
               \/ j \in Recorded(heap', file_metadata', f)
               \/ \E q \in Procs : WillRecord(procs'[q], f, j)]_vars

\* C24: in every state, each index in a registered session's receivedChunks
\* has its chunk file in the staging area.
C24_ReceivedChunksStaged ==
    \A f \in DOMAIN file_metadata :
        \A i \in Session(f).uploaded_chunks :
            get_chunk_file_path(f, i) \in DOMAIN files

\* An upload handler other than p is at work on file id f.
OtherUploadUnderWay(ps, p, f) ==
    \E q \in Procs \ {p} :
        Uploads(ps[q]) /\ ps[q].fileId = f /\ ps[q].pc \notin {"idle", "done"}

\* C25: an upload call that found no session for its uploadID and is
\* rejected for its chunk hash leaves no session behind for which no chunk
\* was accepted: once it has answered, the uploadID is not registered, unless
\* the session has received a chunk or another upload of it is under way.
C25_RejectedUploadCreatesNoSession ==
    [][\A p \in Procs :
          (UploadAnswers(p) /\ procs[p].created /\ procs'[p].response.code = 400)
          => \/ procs[p].fileId \notin DOMAIN file_metadata'
             \/ heap'[file_metadata'[procs[p].fileId]].uploaded_chunks # {}
             \/ OtherUploadUnderWay(procs', p, procs[p].fileId)]_vars

\* Handler p takes a step of an upload or merge call for file id f.
ActsOn(p, f) ==
    /\ procs'[p].pc # procs[p].pc
    /\ \/ (Uploads(procs[p]) \/ Merges(procs[p])) /\ procs[p].fileId = f
       \/ /\ procs[p].pc = "idle"
          /\ (Uploads(procs'[p]) \/ Merges(procs'[p])) /\ procs'[p].fileId = f
\* The chunk files staged for file id f.
StagedFor(fs, f) ==
    [x \in {y \in DOMAIN fs : \E i \in ChunkIndices : y = get_chunk_file_path(f, i)}
        |-> fs[x]]

\* C26: a step of an upload or merge call for uploadID A leaves every session
\* of another uploadID registered, with its chunkCount, contentHash,
\* receivedChunks and staged chunk files as they were; a verify call leaves
\* every session and every staged chunk file as it was.
C26_OtherSessionsUntouched ==
    [][\A p \in Procs :
          /\ \A a \in AllIds :
                ActsOn(p, a) =>
                    \A b \in (DOMAIN file_metadata) \ {a} :
                        /\ b \in DOMAIN file_metadata'
                        /\ heap'[file_metadata'[b]].chunk_total = Session(b).chunk_total
                        /\ heap'[file_metadata'[b]].file_hash = Session(b).file_hash
                        /\ heap'[file_metadata'[b]].uploaded_chunks
                              = Session(b).uploaded_chunks
                        /\ StagedFor(files', b) = StagedFor(files, b)
          /\ VerifyAnswers(p) =>
                /\ Sessions' = Sessions
                /\ ChunkFiles(files') = ChunkFiles(files)]_vars

\* The progress is a number from 0 to 100, and 100 exactly when session m
\* has received all its chunks.
ProgressFits(progress, m) ==
    /\ progress # <<>>
    /\ 0 <= progress[1] /\ progress[1] <= 100 * progress[2]
    /\ (progress[1] = 100 * progress[2])
         <=> ChunksComplete(m.uploaded_chunks, m.chunk_total)

\* C27: for every registered session the status and list operations answer
\* with a progress that is defined, lies between 0 and 100 and is 100
\* exactly when the session has received all its chunks.
C27_ProgressInRange ==
    [][\A p \in Procs :
          /\ (StatusAnswers(p) /\ procs'[p].fileId \in DOMAIN file_metadata)
                => /\ procs'[p].response.code = 200
                   /\ ProgressFits(procs'[p].response.progress, Session(procs'[p].fileId))
          /\ ListAnswers(p)
                => /\ procs'[p].response.code = 200
                   /\ \A e \in procs'[p].response.listed :
                         ProgressFits(e.progress, Session(e.fileId))]_vars

=============================================================================
